---- MODULE Spec2Model ----
(***************************************************************************)
(* Model of src/scraper/scraper.py: the ICO decision-notice scraper.       *)
(*                                                                         *)
(* Strings that the program parses (the combined metadata field, URLs and  *)
(* paths) are sequences of tokens: "," is the comma, " " a blank, "/" the  *)
(* path separator, every other token a run of ordinary characters.         *)
(* Python/JSON values are tagged records: [t |-> "null"], [t |-> "str",    *)
(* v |-> tokens], [t |-> "num", v |-> n], [t |-> "arr", v |-> sequence],   *)
(* [t |-> "obj", v |-> function from keys to values].                      *)
(* A call that may raise yields [exc |-> name, val |-> value]; exc is      *)
(* "none" when the call returns.                                           *)
(***************************************************************************)
EXTENDS Integers, Sequences, FiniteSets, TLC

\* ------------------------------------------------------------------ bounds
\* largest configured page number (START_PAGE and MAX_PAGES range over 1..MaxPage)
MaxPage == 3
\* most records the search API serves on one page
MaxRecords == 2
\* most records the search API serves over a whole run
MaxNotices == 2

\* ------------------------------------------------------- Python values
None == [t |-> "null"]
Str(s) == [t |-> "str", v |-> s]
Num(n) == [t |-> "num", v |-> n]
Arr(a) == [t |-> "arr", v |-> a]
Obj(f) == [t |-> "obj", v |-> f]
EmptyObj == Obj([k \in {} |-> None])

\* bool(x)
Truthy(x) ==
  CASE x.t = "null" -> FALSE
    [] x.t = "str"  -> x.v # <<>>
    [] x.t = "num"  -> x.v # 0
    [] x.t = "arr"  -> x.v # <<>>
    [] x.t = "obj"  -> DOMAIN x.v # {}
    [] OTHER        -> TRUE

\* dict.get(key, default): the default only when the key is missing
PyGet(o, key, default) == IF key \in DOMAIN o.v THEN o.v[key] ELSE default

\* str(x) as an f-string renders it
PyStr(x) ==
  CASE x.t = "str"  -> x.v
    [] x.t = "null" -> <<"None">>
    [] OTHER        -> <<"<repr>">>

Ok(v) == [exc |-> "none", val |-> v]
Raise(e) == [exc |-> e, val |-> None]

\* the keys of a dict, as iteration yields them
RECURSIVE KeySeq(_)
KeySeq(keys) ==
  IF keys = {} THEN <<>>
  ELSE LET k == CHOOSE x \in keys : TRUE IN <<Str(<<k>>)>> \o KeySeq(keys \ {k})

\* what iterating x with a for loop yields: its elements, or TypeError
PyIter(x) ==
  CASE x.t = "arr" -> Ok(x.v)
    [] x.t = "str" -> Ok([i \in 1..Len(x.v) |-> Str(<<x.v[i]>>)])
    [] x.t = "obj" -> Ok(KeySeq(DOMAIN x.v))
    [] OTHER       -> Raise("TypeError")

\* ------------------------------------------------------- configuration
BASE_URL == <<"https://ico.org.uk">>
NotFound == <<"Not found">>
DefaultPdfName == <<"document.pdf">>
MetadataName == <<"metadata.txt">>

\* ------------------------------------------------------- string helpers
RECURSIVE LStrip(_)
LStrip(s) == IF s # <<>> /\ Head(s) = " " THEN LStrip(Tail(s)) ELSE s

RECURSIVE RStrip(_)
RStrip(s) ==
  IF s # <<>> /\ s[Len(s)] = " " THEN RStrip(SubSeq(s, 1, Len(s) - 1)) ELSE s

\* str.strip()
Strip(s) == RStrip(LStrip(s))

\* index of the first token equal to c, 0 when there is none
FirstIndex(s, c) ==
  IF \E i \in 1..Len(s) : s[i] = c
  THEN CHOOSE i \in 1..Len(s) : s[i] = c /\ \A j \in 1..(i - 1) : s[j] # c
  ELSE 0

\* index of the last token equal to c, 0 when there is none
LastIndex(s, c) ==
  IF \E i \in 1..Len(s) : s[i] = c
  THEN CHOOSE i \in 1..Len(s) : s[i] = c /\ \A j \in (i + 1)..Len(s) : s[j] # c
  ELSE 0

\* s.split(',', 1)
SplitFirstComma(s) ==
  LET i == FirstIndex(s, ",")
  IN IF i = 0 THEN <<s>> ELSE <<SubSeq(s, 1, i - 1), SubSeq(s, i + 1, Len(s))>>

\* os.path.basename(path)
Basename(path) == SubSeq(path, LastIndex(path, "/") + 1, Len(path))

\* absolute URLs carry their own scheme and host
IsAbsoluteUrl(s) == s # <<>> /\ Head(s) \in {"https://ico.org.uk", "http://other.example"}

\* urljoin(BASE_URL, url)
UrlJoin(url) ==
  IF ~Truthy(url) THEN Ok(BASE_URL)
  ELSE IF url.t # "str" THEN Raise("TypeError")
  ELSE IF IsAbsoluteUrl(url.v) THEN Ok(url.v)
  ELSE IF Head(url.v) = "/" THEN Ok(BASE_URL \o url.v)
  ELSE Ok(BASE_URL \o <<"/">> \o url.v)

\* ------------------------------------------------------- date parsing
DayOf == ("5" :> 5) @@ ("31" :> 31)
MonthOf == ("December" :> 12) @@ ("June" :> 6)
YearOf == ("2025" :> 2025)
DaysIn(m) == IF m = 6 THEN 30 ELSE 31

\* datetime.strptime(s, "%d %B %Y").date(); ValueError when s does not match
ParseDate(s) ==
  IF /\ Len(s) = 5
     /\ s[1] \in DOMAIN DayOf /\ s[2] = " " /\ s[3] \in DOMAIN MonthOf
     /\ s[4] = " " /\ s[5] \in DOMAIN YearOf
     /\ DayOf[s[1]] <= DaysIn(MonthOf[s[3]])
  THEN Ok([t |-> "date", y |-> YearOf[s[5]], m |-> MonthOf[s[3]], d |-> DayOf[s[1]]])
  ELSE Raise("ValueError")

\* parsed_date.strftime('%Y-%m-%d') if parsed_date else 'N/A'
Pad2(n) == IF n < 10 THEN <<"0", ToString(n)>> ELSE <<ToString(n)>>
FormatDate(dt) ==
  IF dt.t = "date"
  THEN <<ToString(dt.y), "-">> \o Pad2(dt.m) \o <<"-">> \o Pad2(dt.d)
  ELSE <<"N/A">>

\* ------------------------------------------------------- result normalizer
UnknownOrganisation == <<"Unknown Organisation">>

\* lines 112-122: date text and sector out of filterItemMetaData
SplitMeta(filter_meta) ==
  IF ~Truthy(filter_meta) THEN Ok([date_str_raw |-> <<>>, sector |-> NotFound])
  ELSE IF filter_meta.t # "str" THEN Raise("AttributeError")
  ELSE LET parts == SplitFirstComma(filter_meta.v)
       IN Ok([date_str_raw |-> Strip(parts[1]),
              sector |-> IF Len(parts) > 1 THEN Strip(parts[2]) ELSE NotFound])

\* lines 124-129: a date that does not parse is logged and left None
ParsedDate(date_str_raw) ==
  IF date_str_raw = <<>> THEN None
  ELSE LET r == ParseDate(date_str_raw) IN IF r.exc = "none" THEN r.val ELSE None

\* lines 134-137: one entry of filterItemDecisions; <<>> when it adds no fragment
DecisionFragment(dec_item) ==
  IF dec_item.t # "obj" THEN Raise("AttributeError")
  ELSE LET status == PyGet(dec_item, "status", Str(<<>>))
           section == PyGet(dec_item, "section", Str(<<>>))
       IN IF Truthy(status) /\ Truthy(section)
          THEN Ok(<<PyStr(section) \o <<": ">> \o PyStr(status)>>)
          ELSE Ok(<<>>)

\* lines 132-137: the list of "<section>: <status>" fragments
RECURSIVE DecisionList(_)
DecisionList(items) ==
  IF items = <<>> THEN Ok(<<>>)
  ELSE LET f == DecisionFragment(Head(items))
       IN IF f.exc # "none" THEN f
          ELSE LET rest == DecisionList(Tail(items))
               IN IF rest.exc # "none" THEN rest ELSE Ok(f.val \o rest.val)

\* ", ".join(decisions)
RECURSIVE JoinComma(_)
JoinComma(frags) ==
  IF frags = <<>> THEN <<>>
  ELSE IF Len(frags) = 1 THEN frags[1]
  ELSE frags[1] \o <<",", " ">> \o JoinComma(Tail(frags))

\* lines 107-147: one raw record to one notice dictionary
Normalize(item) ==
  IF item.t # "obj" THEN Raise("AttributeError")
  ELSE
    LET meta == SplitMeta(PyGet(item, "filterItemMetaData", Str(<<>>)))
        decs == PyIter(PyGet(item, "filterItemDecisions", Arr(<<>>)))
        frags == IF decs.exc = "none" THEN DecisionList(decs.val) ELSE decs
    IN IF meta.exc # "none" THEN meta
       ELSE IF frags.exc # "none" THEN frags
       ELSE Ok([organisation |-> PyGet(item, "title", Str(UnknownOrganisation)),
                date |-> ParsedDate(meta.val.date_str_raw),
                sector |-> Str(meta.val.sector),
                decision |-> Str(IF frags.val # <<>> THEN JoinComma(frags.val) ELSE NotFound),
                abstract |-> PyGet(item, "description", Str(<<>>)),
                url |-> PyGet(item, "url", Str(<<>>))])

\* lines 105-148: the loop over the results; the first exception ends it
RECURSIVE NormalizeAll(_)
NormalizeAll(items) ==
  IF items = <<>> THEN Ok(<<>>)
  ELSE LET n == Normalize(Head(items))
       IN IF n.exc # "none" THEN n
          ELSE LET rest == NormalizeAll(Tail(items))
               IN IF rest.exc # "none" THEN rest ELSE Ok(<<n.val>> \o rest.val)

\* ------------------------------------------------------- search client
\* requests.exceptions.RequestException and its subclasses
RequestExceptions == {"ConnectionError", "HTTPError", "ChunkedEncodingError"}

\* lines 150-153: the two except clauses of get_data_from_json_api
ApiCaughtRequestsOnly(exc) == exc \in RequestExceptions
ApiCaught(exc) == exc \in RequestExceptions \cup {"JSONDecodeError"}

\* lines 99-148: the try body. resp is what the site answers:
\*   [kind |-> "ConnectionError"]  requests.post raises
\*   [kind |-> "HTTPError"]        raise_for_status raises
\*   [kind |-> "JSONDecodeError"]  response.json() raises
\*   [kind |-> "json", body |-> v] the decoded body
ApiTryBody(resp) ==
  IF resp.kind # "json" THEN Raise(resp.kind)
  ELSE IF resp.body.t # "obj" THEN Raise("AttributeError")
  ELSE LET results == PyIter(PyGet(resp.body, "results", Arr(<<>>)))
       IN IF results.exc # "none" THEN results ELSE NormalizeAll(results.val)

\* lines 92-154
get_data_from_json_api(resp) ==
  LET r == ApiTryBody(resp)
  IN IF r.exc = "none" THEN r
     ELSE IF ApiCaught(r.exc) THEN Ok(<<>>)
     ELSE r

\* ------------------------------------------------------- detail fetcher
\* lines 174-175: the link before the page is looked at
NoLink == [pdf_url |-> NotFound, pdf_filename |-> DefaultPdfName]

\* lines 174-181. page.further_reading is soup.find('further-reading'): None, or
\* the tag as the dictionary of its attributes
PdfLink(page) ==
  LET tag == page.further_reading
  IN IF tag.t # "null" /\ "x-href" \in DOMAIN tag.v
     THEN LET relative_pdf_url == PyStr(tag.v["x-href"])
          IN [pdf_url |-> UrlJoin(Str(relative_pdf_url)).val,
              pdf_filename |-> IF relative_pdf_url # <<>>
                               THEN Basename(relative_pdf_url)
                               ELSE DefaultPdfName]
     ELSE NoLink

\* ------------------------------------------------------- persistence writer
\* a file: the text lines written to it, and for a binary file how much of the body
TextFile(lines) == [lines |-> lines, body |-> "none"]
PdfFile(body) == [lines |-> <<>>, body |-> body]
NoFiles == [n \in {} |-> TextFile(<<>>)]

\* open(path, 'w') / open(path, 'wb') followed by writes: the file is replaced
WriteFile(dir, name, file) == [dir EXCEPT !.files = (name :> file) @@ dir.files]

\* lines 189-194: the six lines of metadata.txt
MetadataLines(notice, pdf_url) ==
  << <<"Organisation: ">> \o PyStr(notice.organisation),
     <<"Date: ">> \o FormatDate(notice.date),
     <<"Sector: ">> \o PyStr(notice.sector),
     <<"Decision: ">> \o PyStr(notice.decision),
     <<"Abstract: ">> \o PyStr(notice.abstract),
     <<"PDF URL: ">> \o pdf_url >>

\* line 198
ShouldDownloadAlways(pdf_url) == TRUE
ShouldDownload(pdf_url) == pdf_url # NotFound

\* line 207: the except clause around the download
PdfCaught(exc) == exc \in RequestExceptions

\* lines 199-208: the download into directory dir. env.pdf is what the site
\* answers. An empty file name makes pdf_path the directory itself, and open
\* raises IsADirectoryError, an OSError.
\* Yields the directory, the exception raised inside the try and whether the
\* PDF file was opened for writing.
DownloadPdf(dir, link, env) ==
  IF env.pdf.kind \in {"ConnectionError", "HTTPError"}
  THEN [dir |-> dir, raised |-> env.pdf.kind, opened |-> FALSE]
  ELSE IF link.pdf_filename = <<>>
  THEN [dir |-> dir, raised |-> "OSError", opened |-> FALSE]
  ELSE IF env.pdf.kind = "ChunkedEncodingError"
  THEN [dir |-> WriteFile(dir, link.pdf_filename, PdfFile("partial")),
        raised |-> "ChunkedEncodingError", opened |-> TRUE]
  ELSE [dir |-> WriteFile(dir, link.pdf_filename, PdfFile("complete")),
        raised |-> "none", opened |-> TRUE]

\* what a call of scrape_detail_page reports
Outcome(exc, dir, link, touched, requested, raised, opened) ==
  [exc |-> exc, dir |-> dir, link |-> link, touched |-> touched,
   pdf_requested |-> requested, pdf_raised |-> raised, pdf_opened |-> opened]

\* lines 157-208. dir is the directory case-<case_counter> as it is before the call.
scrape_detail_page(notice, dir, env) ==
  LET link == IF env.detail.kind = "html" THEN PdfLink(env.detail) ELSE NoLink
      lines == MetadataLines(notice, link.pdf_url)
      made == [dir EXCEPT !.exists = TRUE]
      written == WriteFile(made, MetadataName, TextFile(lines))
      dl == DownloadPdf(written, link, env)
  IN IF env.detail.kind # "html"
     THEN Outcome(env.detail.kind, dir, link, FALSE, FALSE, "none", FALSE)
     ELSE IF env.fault.at = "makedirs"
     THEN Outcome("OSError", dir, link, FALSE, FALSE, "none", FALSE)
     ELSE IF ~ShouldDownload(link.pdf_url)
     THEN Outcome("none", written, link, TRUE, FALSE, "none", FALSE)
     ELSE Outcome(IF dl.raised = "none" \/ PdfCaught(dl.raised) THEN "none" ELSE dl.raised,
                  dl.dir, link, TRUE, TRUE, dl.raised, dl.opened)

\* ------------------------------------------------------- what the site serves
Tok(a) == Str(<<a>>)
ItemComplete ==
  Obj([title |-> Tok("Org A"), url |-> Str(<<"/", "notice-a">>),
       description |-> Tok("abstract a"),
       filterItemMetaData |-> Str(<<"5", " ", "December", " ", "2025", ",", " ", "Education">>),
       filterItemDecisions |-> Arr(<<Obj([status |-> Tok("Upheld"), section |-> Tok("FOI 10")])>>)])
ItemNullDecisions ==
  Obj([title |-> Tok("Org D"), url |-> Str(<<"/", "notice-d">>),
       filterItemMetaData |-> None, filterItemDecisions |-> None])
ItemNumericUrl ==
  Obj([url |-> Num(5), description |-> None,
       filterItemMetaData |-> Str(<<"31", " ", "June", " ", "2025">>),
       filterItemDecisions |-> Arr(<<Obj([section |-> Tok("FOI 1")])>>)])
RawItems == {ItemComplete, ItemNullDecisions, ItemNumericUrl}

SeqsUpTo(S, n) == UNION {[1..m -> S] : m \in 0..n}
Min(a, b) == IF a < b THEN a ELSE b

\* the answers of the search API when it may still serve n records
ApiResponses(n) ==
  {[kind |-> k] : k \in {"ConnectionError", "HTTPError", "JSONDecodeError"}}
  \cup {[kind |-> "json", body |-> b] : b \in {Arr(<<>>), EmptyObj, Obj([results |-> None])}}
  \cup {[kind |-> "json", body |-> Obj([results |-> Arr(items)])] :
          items \in SeqsUpTo(RawItems, Min(MaxRecords, n))}

\* the number of records an answer carries
Carried(resp) ==
  IF resp.kind = "json" /\ resp.body.t = "obj" /\ "results" \in DOMAIN resp.body.v
     /\ resp.body.v["results"].t = "arr"
  THEN Len(resp.body.v["results"].v) ELSE 0

\* whether an answer is a results array of raw records (JSON objects)
AllRecords(resp) ==
  /\ Carried(resp) > 0
  /\ \A i \in 1..Carried(resp) : resp.body.v["results"].v[i].t = "obj"

Tag(xhref) == Obj([k \in {"x-href"} |-> Str(xhref)])
DetailPages ==
  {[kind |-> k] : k \in {"HTTPError"}}
  \cup {[kind |-> "html", further_reading |-> t] :
          t \in {None, EmptyObj,
                 Tag(<<"/", "docs", "/", "x", "/", "report.pdf">>),
                 Tag(<<"/", "docs", "/">>),
                 Tag(<<"/", "docs", "/", "metadata.txt">>)}}
PdfResponses == {[kind |-> k] : k \in {"ConnectionError", "ChunkedEncodingError", "ok"}}
\* the filesystem failure a call meets: none, or an OSError when it creates
\* the case directory
Faults == {[at |-> a] : a \in {"none", "makedirs"}}
Envs == [detail : DetailPages, pdf : PdfResponses, fault : Faults]

\* ------------------------------------------------------- orchestrator
VARIABLES
  START_PAGE,    \* line 32, drawn from 1..MaxPage-1
  MAX_PAGES,     \* line 33, drawn from 1..MaxPage
  pc,            \* "start", "page" (head of the page loop), "records", "done", "crashed"
  page_num,      \* line 65
  notices,       \* the records of the current page not yet processed (line 78)
  case_counter,  \* line 59
  fs,            \* DATA_DIR: case number -> [exists, files]
  served,        \* number of records the search API has served so far
  slept,         \* whether time.sleep ran since the last detail-page request
  succ,          \* the records scrape_detail_page returned for, in order
  wrote,         \* case number -> the records that wrote into that directory
  last_api,      \* the last call of get_data_from_json_api
  last_rec       \* the last record taken by the record loop

vars == <<START_PAGE, MAX_PAGES, pc, page_num, notices, case_counter, fs, served,
          slept, succ, wrote, last_api, last_rec>>

Exceptions == RequestExceptions \cup {"JSONDecodeError", "TypeError", "AttributeError", "OSError", "ValueError"}

\* line 85: except Exception
RecordCaught(exc) == exc \in Exceptions

\* line 88: except Exception
PageCaughtRequestsOnly(exc) == exc \in RequestExceptions
PageCaught(exc) == exc \in Exceptions

\* line 73
LoopBreaksNever(p) == FALSE
LoopBreaks(p) == p > START_PAGE

\* lines 82-83: the counter after a record whose call ended with exc
NextCounterAlways(c, exc) == c + 1
NextCounter(c, exc) == IF exc = "none" THEN c + 1 ELSE c

NoRec ==
  [called |-> FALSE, page |-> 0, rid |-> 0, case |-> 0, level |-> "none", exc |-> "none",
   skipped |-> 0, unpaced |-> FALSE, fetched |-> FALSE, has_link |-> FALSE,
   link |-> NoLink, pdf_requested |-> FALSE, pdf_raised |-> "none", pdf_opened |-> FALSE]

Init ==
  /\ START_PAGE \in 1..(MaxPage - 1)
  /\ MAX_PAGES \in 1..MaxPage
  /\ pc = "start"
  /\ page_num = START_PAGE
  /\ notices = <<>>
  /\ case_counter = 1
  /\ fs = [k \in 1..MaxNotices |-> [exists |-> FALSE, files |-> NoFiles]]
  /\ served = 0
  /\ slept = TRUE
  /\ succ = <<>>
  /\ wrote = [k \in 1..MaxNotices |-> {}]
  /\ last_api = [called |-> FALSE, page |-> 0, kind |-> "none", records |-> FALSE,
                 carried |-> 0, exc |-> "none", returned |-> 0, counter |-> 1]
  /\ last_rec = NoRec

\* line 58: os.makedirs(DATA_DIR) is outside every try
Start ==
  /\ pc = "start"
  /\ \E ok \in BOOLEAN : pc' = IF ok THEN "page" ELSE "crashed"
  /\ UNCHANGED <<START_PAGE, MAX_PAGES, page_num, notices, case_counter, fs, served,
                 slept, succ, wrote, last_api, last_rec>>

\* lines 65-76 and 88-89: one iteration of the page loop up to the record loop
FetchPage ==
  /\ pc = "page"
  /\ page_num <= MAX_PAGES
  /\ \E resp \in ApiResponses(MaxNotices - served) :
       LET out == get_data_from_json_api(resp)
       IN /\ last_api' = [called |-> TRUE, page |-> page_num, kind |-> resp.kind,
                          records |-> AllRecords(resp), carried |-> Carried(resp),
                          exc |-> out.exc, counter |-> case_counter,
                          returned |-> IF out.exc = "none" THEN Len(out.val) ELSE 0]
          /\ served' = served + Carried(resp)
          /\ IF out.exc # "none"
             THEN IF PageCaught(out.exc)
                  THEN pc' = "page" /\ page_num' = page_num + 1 /\ notices' = <<>>
                  ELSE pc' = "crashed" /\ UNCHANGED <<page_num, notices>>
             ELSE IF out.val = <<>>
             THEN IF LoopBreaks(page_num)
                  THEN pc' = "done" /\ UNCHANGED <<page_num, notices>>
                  ELSE pc' = "page" /\ page_num' = page_num + 1 /\ notices' = <<>>
             ELSE pc' = "records" /\ notices' = out.val /\ UNCHANGED page_num
  /\ UNCHANGED <<START_PAGE, MAX_PAGES, case_counter, fs, slept, succ, wrote, last_rec>>

\* line 65: range(START_PAGE, total_pages + 1) is exhausted
LoopExit ==
  /\ pc = "page"
  /\ page_num > MAX_PAGES
  /\ pc' = "done"
  /\ UNCHANGED <<START_PAGE, MAX_PAGES, page_num, notices, case_counter, fs, served,
                 slept, succ, wrote, last_api, last_rec>>

\* after the record loop body: the next record, or the next page
Advance(rest) ==
  IF rest # <<>>
  THEN pc' = "records" /\ notices' = rest /\ UNCHANGED page_num
  ELSE pc' = "page" /\ notices' = <<>> /\ page_num' = page_num + 1

\* lines 78-86 and 88-89: one iteration of the record loop
ProcessRecord ==
  /\ pc = "records"
  /\ notices # <<>>
  /\ LET notice_data == Head(notices)
         detail_url == UrlJoin(notice_data.url)
         rid == served - Len(notices) + 1
     IN IF detail_url.exc # "none"
        THEN /\ last_rec' = [NoRec EXCEPT !.page = page_num, !.rid = rid, !.case = case_counter,
                                          !.level = "page", !.exc = detail_url.exc,
                                          !.skipped = Len(notices) - 1]
             /\ IF PageCaught(detail_url.exc)
                THEN pc' = "page" /\ notices' = <<>> /\ page_num' = page_num + 1
                ELSE pc' = "crashed" /\ UNCHANGED <<page_num, notices>>
             /\ UNCHANGED <<case_counter, fs, slept, succ, wrote>>
        ELSE \E env \in Envs :
             LET r == scrape_detail_page(notice_data, fs[case_counter], env)
                 lines == MetadataLines(notice_data, r.link.pdf_url)
             IN /\ fs' = [fs EXCEPT ![case_counter] = r.dir]
                /\ wrote' = [wrote EXCEPT ![case_counter] =
                               IF r.touched THEN @ \cup {rid} ELSE @]
                /\ case_counter' = NextCounter(case_counter, r.exc)
                /\ slept' = (r.exc = "none")
                /\ succ' = IF r.exc = "none"
                           THEN Append(succ, [rid |-> rid, case |-> case_counter, lines |-> lines])
                           ELSE succ
                /\ last_rec' =
                     [called |-> TRUE, page |-> page_num, rid |-> rid, case |-> case_counter,
                      level |-> IF r.exc = "none" THEN "none" ELSE "record",
                      exc |-> r.exc, skipped |-> 0, unpaced |-> ~slept,
                      fetched |-> (env.detail.kind = "html"),
                      link |-> r.link,
                      has_link |-> (env.detail.kind = "html"
                                    /\ env.detail.further_reading.t # "null"
                                    /\ "x-href" \in DOMAIN env.detail.further_reading.v),
                      pdf_requested |-> r.pdf_requested, pdf_raised |-> r.pdf_raised,
                      pdf_opened |-> r.pdf_opened]
                /\ IF r.exc = "none" \/ RecordCaught(r.exc)
                   THEN Advance(Tail(notices))
                   ELSE IF PageCaught(r.exc)
                   THEN pc' = "page" /\ notices' = <<>> /\ page_num' = page_num + 1
                   ELSE pc' = "crashed" /\ UNCHANGED <<page_num, notices>>
  /\ UNCHANGED <<START_PAGE, MAX_PAGES, served, last_api>>

Next == Start \/ FetchPage \/ ProcessRecord \/ LoopExit

Spec == Init /\ [][Next]_vars

\* ------------------------------------------------------- claims
ApiFailures == {"ConnectionError", "HTTPError", "JSONDecodeError"}
MetadataOf(k) == fs[k].files[MetadataName]
HasMetadata(k) == MetadataName \in DOMAIN fs[k].files

\* C1: the case counter is 1 plus the number of records scrape_detail_page
\* returned for; the k-th such record, in encounter order, was given case
\* number k and wrote into directory case-k.
C1_DenseCaseNumbers ==
  /\ case_counter = Len(succ) + 1
  /\ \A k \in 1..Len(succ) : succ[k].case = k /\ succ[k].rid \in wrote[k]
  /\ \A j, k \in 1..Len(succ) : j < k => succ[j].rid < succ[k].rid

\* the second record served is the first one to succeed and goes to case-1
C1_Witness == Len(succ) = 1 /\ succ[1].rid = 2 /\ succ[1].case = 1 /\ case_counter = 2

\* C2: an exception raised while a record is processed skips no other record
\* of its page and does not abort the run.
C2_RecordExceptionsIsolated ==
  last_rec.exc # "none" => last_rec.skipped = 0 /\ pc # "crashed"

\* C3: an empty result at the start page moves the loop to the next page, an
\* empty result at a later page ends the run with nothing requested after it,
\* and otherwise the loop requests every page up to MAX_PAGES inclusive.
C3_PageLoop ==
  /\ last_api.called => START_PAGE <= last_api.page /\ last_api.page <= MAX_PAGES
  /\ (last_api.called /\ last_api.exc = "none" /\ last_api.returned = 0) =>
       IF last_api.page > START_PAGE
       THEN pc = "done" /\ page_num = last_api.page
       ELSE pc \in {"page", "done"} /\ page_num = last_api.page + 1
  /\ pc = "records" => last_api.returned > 0 /\ page_num = last_api.page
  /\ (pc = "page" /\ last_api.called) => page_num = last_api.page + 1
  /\ (pc = "page" /\ page_num <= MAX_PAGES) => ENABLED FetchPage
  /\ pc = "done" =>
       /\ ~ENABLED Next
       /\ \/ page_num > MAX_PAGES
          \/ /\ last_api.exc = "none" /\ last_api.returned = 0
             /\ last_api.page > START_PAGE /\ page_num = last_api.page

\* the run ended on an empty page after the start page and before MAX_PAGES
C3_Witness ==
  /\ pc = "done" /\ last_api.kind = "json" /\ last_api.exc = "none"
  /\ last_api.returned = 0
  /\ START_PAGE < last_api.page /\ last_api.page < MAX_PAGES

\* C4: no detail page is requested unless time.sleep ran after the previous
\* detail-page request.
C4_PacedFetches == last_rec.called => ~last_rec.unpaced

\* C5: a transport failure, a failing HTTP status or a JSON-decode failure of
\* the search request is returned as the empty list, as a response without
\* results is, and the page loop treats it as such.
C5_ApiFailuresBecomeEmpty ==
  last_api.kind \in ApiFailures =>
    /\ last_api.exc = "none" /\ last_api.returned = 0
    /\ get_data_from_json_api([kind |-> last_api.kind])
         = get_data_from_json_api([kind |-> "json", body |-> EmptyObj])
    /\ pc # "crashed"

\* the last search request ended in a JSON-decode failure
C5_Witness == last_api.called /\ last_api.kind = "JSONDecodeError" /\ pc \in {"page", "done"}

\* C6: a results array of raw records is normalized without an exception,
\* one notice per record.
C6_NormalizerTotal ==
  last_api.records => last_api.exc = "none" /\ last_api.returned = last_api.carried

\* C7: an exception that reaches the page-level handler at page p leaves the
\* run at the head of the page loop with page p+1 next, which is requested
\* when it is within MAX_PAGES, and the case counter as it was.
C7_PageExceptionIsolated ==
  /\ pc = "crashed" => ~last_api.called
  /\ last_api.exc # "none" =>
       /\ pc \in {"page", "done"} /\ page_num = last_api.page + 1
       /\ case_counter = last_api.counter
       /\ pc = "done" => page_num > MAX_PAGES
       /\ (pc = "page" /\ page_num <= MAX_PAGES) => ENABLED FetchPage
  /\ (last_rec.level = "page" /\ last_api.page = last_rec.page) =>
       /\ pc \in {"page", "done"} /\ page_num = last_rec.page + 1
       /\ pc = "done" => page_num > MAX_PAGES
       /\ (pc = "page" /\ page_num <= MAX_PAGES) => ENABLED FetchPage
  /\ last_rec.level = "page" => case_counter = last_rec.case

\* urljoin raised at page p and page p+1 has been requested since
C7_Witness ==
  /\ last_rec.level = "page" /\ last_rec.exc = "TypeError"
  /\ last_api.called /\ last_api.page = last_rec.page + 1

\* C8: when the PDF download raises a transport failure the call returns,
\* metadata.txt holds the record's six lines and the counter has advanced.
C8_PdfFailureKeepsMetadata ==
  (last_rec.called /\ last_rec.pdf_requested /\ last_rec.pdf_raised \in RequestExceptions) =>
    /\ last_rec.exc = "none"
    /\ case_counter = last_rec.case + 1
    /\ succ # <<>> /\ succ[Len(succ)].rid = last_rec.rid
    /\ HasMetadata(last_rec.case)
    /\ MetadataOf(last_rec.case) = TextFile(succ[Len(succ)].lines)

\* C9: for a detail page without the tag or without its x-href attribute the
\* link is ("Not found", "document.pdf"), no PDF is requested and no PDF file
\* is opened, and unless the filesystem fails the call returns with
\* metadata.txt ending in "PDF URL: Not found"; a PDF is requested only when
\* the PDF URL is not the sentinel.
C9_NoLinkNoDownload ==
  /\ (last_rec.called /\ last_rec.fetched /\ ~last_rec.has_link) =>
       /\ last_rec.link = [pdf_url |-> <<"Not found">>, pdf_filename |-> <<"document.pdf">>]
       /\ ~last_rec.pdf_requested /\ ~last_rec.pdf_opened
       /\ last_rec.exc \in {"none", "OSError"}
       /\ last_rec.exc = "none" =>
            /\ HasMetadata(last_rec.case)
            /\ Len(MetadataOf(last_rec.case).lines) = 6
            /\ MetadataOf(last_rec.case).lines[6] = <<"PDF URL: ", "Not found">>
  /\ last_rec.pdf_requested => last_rec.link.pdf_url # <<"Not found">>

\* a record whose detail page has no further-reading tag was written
C9_Witness ==
  /\ last_rec.called /\ last_rec.fetched /\ ~last_rec.has_link /\ last_rec.exc = "none"
  /\ HasMetadata(last_rec.case)

\* C10: at the end of the run no directory was written by two records, the
\* directories holding metadata.txt are case-1 .. case-(counter-1), and each
\* holds the six lines of the record that was given its number.
C10_OneRecordPerDirectory ==
  pc = "done" =>
    /\ \A k \in DOMAIN wrote : Cardinality(wrote[k]) <= 1
    /\ {k \in DOMAIN fs : HasMetadata(k)} = 1..(case_counter - 1)
    /\ \A k \in 1..(case_counter - 1) : MetadataOf(k) = TextFile(succ[k].lines)

====
